---- MODULE Spec2Model ----
(***************************************************************************)
(* Model of the MCP email <-> OneDrive tool server: run_tool (server.py)   *)
(* with the helpers it calls in email_processor.py, onedrive_handler.py    *)
(* and file_compressor.py.  One invocation of run_tool is a small state    *)
(* machine over a file system, the two token stores and the external       *)
(* services, whose answers are nondeterministic.                           *)
(***************************************************************************)
EXTENDS Integers, Sequences, FiniteSets, TLC

\* ------------------------------------------------------------------ bounds
\* parts in the mailbox the search sees, paths in a request
MaxParts == 3
MaxPaths == 2

\* ------------------------------------------------------------ file names
\* A file name is a sequence of one-character strings; a path is a record
\* [dir, name]; dir "" is a relative path (resolved against the cwd).
NameAX == <<"a", ".", "x">>
NameA1X == <<"a", "_", "1", ".", "x">>
NameD == <<"d", ".", "x">>
NameM == <<"m", ".", "x">>
NameAbsAX == <<"/", "d", "a", "t", "a", "/", "a", ".", "x">>
NameSubAX == <<"s", "/", "a", ".", "x">>
NameOut == <<"o">>
NameOutZip == <<"o", ".", "z", "i", "p">>
DotZip == <<".", "z", "i", "p">>
NoName == <<>>

CwdDir == "/cwd"
DataDir == "/data"
TmpPrefix == "/tmp/mcp_work_"

Path(d, n) == [dir |-> d, name |-> n]
NoPath == Path("", NoName)

\* os.path.isabs / os.path.abspath / os.path.join / os.path.basename
IsAbs(p) == p.dir # ""
AbsPath(p) == IF IsAbs(p) THEN p ELSE Path(CwdDir, p.name)
Join(d, p) == IF IsAbs(p) THEN p ELSE Path(d, p.name)
BaseName(p) == p.name
DirName(p) == p.dir

\* A file name as a mail part gives it may contain "/": the text of a
\* sequence of characters, and os.path.join(folder, filename), which drops
\* the folder when the name is absolute.
RECURSIVE Str(_)
Str(cs) == IF cs = << >> THEN "" ELSE Head(cs) \o Str(Tail(cs))
LastSlash(s) ==
    LET ds == {i \in 1..Len(s) : s[i] = "/"}
    IN  IF ds = {} THEN 0 ELSE CHOOSE i \in ds : \A j \in ds : j <= i
JoinName(folder, s) ==
    LET k == LastSlash(s)
        base == SubSeq(s, k + 1, Len(s))
    IN  IF k = 0 THEN Path(folder, s)
        ELSE IF s[1] = "/" THEN Path(IF k = 1 THEN "/" ELSE Str(SubSeq(s, 1, k - 1)), base)
        ELSE Path(folder \o "/" \o Str(SubSeq(s, 1, k - 1)), base)

\* str.endswith
EndsWith(s, suf) ==
    /\ Len(s) >= Len(suf)
    /\ SubSeq(s, Len(s) - Len(suf) + 1, Len(s)) = suf

\* str(i) for i >= 0
Digit == <<"0", "1", "2", "3", "4", "5", "6", "7", "8", "9">>
RECURSIVE Dec(_)
Dec(n) == IF n < 10 THEN <<Digit[n + 1]>> ELSE Dec(n \div 10) \o <<Digit[(n % 10) + 1]>>

\* os.path.splitext on the name part: the extension starts at the last dot,
\* unless only dots precede it.
LastDot(s) ==
    LET ds == {i \in 1..Len(s) : s[i] = "."}
    IN  IF ds = {} THEN 0 ELSE CHOOSE i \in ds : \A j \in ds : j <= i
SplitAt(s) ==
    LET d == LastDot(s)
    IN  IF d > 0 /\ \E k \in 1..(d - 1) : s[k] # "." THEN d ELSE Len(s) + 1
SplitExt(p) ==
    LET k == SplitAt(p.name)
    IN  << Path(p.dir, SubSeq(p.name, 1, k - 1)), SubSeq(p.name, k, Len(p.name)) >>

\* ------------------------------------------------------------------ state
VARIABLES
    pc,          \* position of the invocation inside run_tool
    tool,        \* req.tool
    data,        \* req.input: a function from the keys present to values
    work_dir,    \* run_tool: work_dir ("" outside the try block)
    nextDir,     \* number of directories mkdtemp has created
    dirs,        \* the directories that exist
    fs,          \* the files that exist: path -> content
    resp,        \* what run_tool returns or raises
    cleanup,     \* "none", "ok" or "failed": what shutil.rmtree did
    calls,       \* the external calls of this invocation, in order
    tokenFile,   \* content of settings.GOOGLE_TOKEN_FILE
    creds,       \* build_gmail_service: creds
    service,     \* the Gmail session run_tool holds
    grants,      \* number of tokens the providers have issued
    msalFile,    \* content of settings.MSAL_TOKEN_FILE
    token,       \* run_tool: token (storage)
    messages,    \* run_tool: messages, until the download loop has consumed them
    files,       \* run_tool: files / download: saved_files
    todo,        \* the loop's remaining items
    uploaded,    \* run_tool: uploaded
    zip_path,    \* run_tool: output_zip / zip_path
    send_res,    \* run_tool: res / send_res
    writes,      \* download: for each write, whether its target existed
    prev,        \* the previous invocation's successful response
    inv,         \* number of invocations started
    parked,      \* the frame of the invocation that is not running now
    acquired     \* what each provider's acquire function last returned

envVars == <<tokenFile, grants, msalFile>>
fsVars == <<dirs, fs, nextDir>>
reqVars == <<tool, data, prev, inv>>
gmailVars == <<creds, service>>
locVars == <<token, messages, files, todo, uploaded, zip_path, send_res, writes>>
sessVars == <<parked, acquired>>
vars == <<pc, work_dir, resp, cleanup, calls, envVars, fsVars, reqVars, gmailVars, locVars,
          sessVars>>


\* --------------------------------------------------- TOOL_DEFINITIONS
SearchTool == "search_and_download_attachments"
UploadTool == "upload_to_onedrive"
CompressTool == "compress_files"
SendTool == "send_zip_via_email"
PipelineTool == "orchestrate_full_pipeline"
UnknownTool == "no_such_tool"

Tools == {SearchTool, UploadTool, CompressTool, SendTool, PipelineTool}

\* schema["required"], in the order the schema lists the fields
Required(t) ==
    CASE t = SearchTool -> <<"query", "max_results">>
      [] t = UploadTool -> <<"local_paths", "remote_folder_path">>
      [] t = CompressTool -> <<"local_paths", "output_zip">>
      [] t = SendTool -> <<"to", "subject", "body", "zip_path">>
      [] t = PipelineTool ->
            <<"query", "max_results", "onedrive_folder", "recipient_email", "zip_name">>

Range(s) == {s[i] : i \in 1..Len(s)}
SeqsUpTo(S, n) == UNION {[1..k -> S] : k \in 0..n}

\* ------------------------------------------------------------- responses
\* An exception: its class, its message text, and what the message quotes
\* (a field or tool name in arg, a file path in path); inner is the text of
\* the exception an HTTPException(500) wraps.
NoError == [exc |-> "", msg |-> "", arg |-> "", path |-> NoPath, inner |-> ""]
Err(exc, msg) == [NoError EXCEPT !.exc = exc, !.msg = msg]
ErrArg(exc, msg, arg) == [NoError EXCEPT !.exc = exc, !.msg = msg, !.arg = arg]
ErrPath(exc, msg, p) == [NoError EXCEPT !.exc = exc, !.msg = msg, !.path = p]

NoBody ==
    [keys |-> {}, status |-> "", downloaded_files |-> <<>>, uploaded |-> <<>>,
     zip_path |-> NoPath, result |-> 0]
NoResp == [status |-> 0, error |-> NoError, body |-> NoBody]
Ok(body) == [status |-> 200, error |-> NoError, body |-> body]
Http(code, e) == [status |-> code, error |-> e, body |-> NoBody]

\* An entry of the call log: the external operation, whether it succeeded
\* and, for a search, how many messages it returned.
CallN(op, ok, n) == [op |-> op, ok |-> ok, n |-> n]
Call(op, ok) == CallN(op, ok, 0)
Ops(cs) == {cs[i].op : i \in 1..Len(cs)}

\* except Exception as e: raise HTTPException(500, "Tool execution error: " + str(e))
ExceptHandler(e) ==
    Http(500, [exc |-> "HTTPException", msg |-> "Tool execution error", arg |-> e.arg,
               path |-> e.path, inner |-> e.msg])

Failed(r) == r.status \notin {0, 200}

\* --------------------------------------------------------- file system
FileContent == [kind |-> "file", entries |-> <<>>]
ZipContent(es) == [kind |-> "zip", entries |-> es]

Exists(f, p) == AbsPath(p) \in DOMAIN f
WriteFile(f, p, c) == [q \in DOMAIN f \cup {AbsPath(p)} |-> IF q = AbsPath(p) THEN c ELSE f[q]]
\* shutil.rmtree(d): the directory and everything below it
RmTree(f, d) == [q \in {r \in DOMAIN f : r.dir # d} |-> f[q]]

WorkDirName(n) == TmpPrefix \o Dec(n)[1]
InitFs ==
    [q \in {Path(DataDir, NameD), Path(CwdDir, NameD), Path(DataDir, NameOutZip)} |->
        IF q.name = NameOutZip THEN ZipContent(<<NameD>>) ELSE FileContent]

\* ------------------------------------------------------------ requests
LocalPathChoices == {Path(DataDir, NameD), Path(DataDir, NameM), Path("", NameD)}
OutputZipChoices == {Path("", NameOutZip), Path(DataDir, NameOutZip), Path(DataDir, NameOut)}
ZipPathChoices == {Path(DataDir, NameOutZip), Path(DataDir, NameM)}
ZipNameChoices == {NameOut, NameOutZip}
MaxResultsChoices == {"10", "abc"}

\* The values a request may carry for each field of each tool.
FullInputs(t) ==
    CASE t = SearchTool ->
            {[k \in {"query", "max_results"} |-> IF k = "max_results" THEN m ELSE "v"] :
                m \in MaxResultsChoices}
      [] t = UploadTool ->
            {[k \in {"local_paths", "remote_folder_path"} |->
                IF k = "local_paths" THEN lp ELSE "v"] :
                lp \in SeqsUpTo(LocalPathChoices, MaxPaths)}
      [] t = CompressTool ->
            {[k \in {"local_paths", "output_zip"} |-> IF k = "local_paths" THEN x[1] ELSE x[2]] :
                x \in SeqsUpTo(LocalPathChoices, MaxPaths) \X OutputZipChoices}
      [] t = SendTool ->
            {[k \in {"to", "subject", "body", "zip_path"} |->
                IF k = "zip_path" THEN zp ELSE "v"] : zp \in ZipPathChoices}
      [] t = PipelineTool ->
            {[k \in {"query", "max_results", "onedrive_folder", "recipient_email", "zip_name"}
                |-> IF k = "max_results" THEN x[1] ELSE IF k = "zip_name" THEN x[2] ELSE "v"] :
                x \in MaxResultsChoices \X ZipNameChoices}

Restrict(d, ks) == [k \in ks |-> d[k]]
Inputs(t) == {Restrict(d, ks) : d \in FullInputs(t), ks \in SUBSET Range(Required(t))}

\* int(data["max_results"])
IntOk(v) == v = "10"

\* ---------------------------------------------------------- credentials
None == [none |-> TRUE, malformed |-> FALSE, token |-> 0, expired |-> FALSE,
         refresh_token |-> FALSE]
Cred(t, e, r) == [none |-> FALSE, malformed |-> FALSE, token |-> t, expired |-> e,
                  refresh_token |-> r]
Malformed == [none |-> FALSE, malformed |-> TRUE, token |-> 0, expired |-> FALSE,
              refresh_token |-> FALSE]
\* google.oauth2.credentials.Credentials.valid
Valid(c) == ~c.none /\ c.token # 0 /\ ~c.expired

TokenFileStates ==
    {None, Malformed, Cred(1, FALSE, TRUE), Cred(1, TRUE, TRUE), Cred(1, TRUE, FALSE),
     Cred(0, FALSE, TRUE)}

\* ------------------------------------------------------------ invocations
\* The frame of one run_tool call: its arguments, its position, its locals
\* and what it has answered so far.
Frame ==
    [pc |-> pc, tool |-> tool, data |-> data, work_dir |-> work_dir, resp |-> resp,
     cleanup |-> cleanup, calls |-> calls, creds |-> creds, service |-> service,
     token |-> token, messages |-> messages, files |-> files, todo |-> todo,
     uploaded |-> uploaded, zip_path |-> zip_path, send_res |-> send_res, writes |-> writes]
\* a call that has not been received yet
IdleFrame ==
    [pc |-> "idle", tool |-> UnknownTool, data |-> << >>, work_dir |-> "", resp |-> NoResp,
     cleanup |-> "none", calls |-> << >>, creds |-> None, service |-> None,
     token |-> 0, messages |-> << >>, files |-> << >>, todo |-> << >>,
     uploaded |-> << >>, zip_path |-> NoPath, send_res |-> 0, writes |-> << >>]
\* nothing has been acquired yet
NoneAcquired == [mail |-> None, storage |-> 0]

\* ------------------------------------------------------------------ init
Init ==
    /\ pc = "idle"
    /\ tool = UnknownTool
    /\ data = << >>
    /\ work_dir = ""
    /\ nextDir = 0
    /\ dirs = {DataDir, CwdDir}
    /\ fs = InitFs
    /\ resp = NoResp
    /\ cleanup = "none"
    /\ calls = << >>
    /\ tokenFile \in TokenFileStates
    /\ creds = None
    /\ service = None
    /\ grants = 1
    /\ msalFile = 0
    /\ token = 0
    /\ messages = << >>
    /\ files = << >>
    /\ todo = << >>
    /\ uploaded = << >>
    /\ zip_path = NoPath
    /\ send_res = 0
    /\ writes = << >>
    /\ prev = NoResp
    /\ inv = 0
    /\ parked = IdleFrame
    /\ acquired = NoneAcquired

\* ------------------------------------------------------- run_tool: entry
\* Faulty variant: reports the last absent field instead of the first
LastMissing(t, d) ==
    LET req == Required(t)
        miss == {i \in 1..Len(req) : req[i] \notin DOMAIN d}
    IN  IF miss = {} THEN "" ELSE req[CHOOSE i \in miss : \A j \in miss : j <= i]

\* The first required field that is absent, "" when none is.
FirstMissing(t, d) ==
    LET req == Required(t)
        miss == {i \in 1..Len(req) : req[i] \notin DOMAIN d}
    IN  IF miss = {} THEN "" ELSE req[CHOOSE i \in miss : \A j \in miss : i <= j]

\* run_tool up to the end of validation: an unknown tool and a missing field
\* raise HTTPException(400) before the try block.
Validate(t, d) ==
    IF t \notin Tools
    THEN Http(400, ErrArg("HTTPException", "Unknown tool", t))
    ELSE IF FirstMissing(t, d) # ""
         THEN Http(400, ErrArg("HTTPException", "Missing required input", FirstMissing(t, d)))
         ELSE NoResp

Invoke(t, d) ==
    /\ pc = "idle"
    /\ inv' = inv + 1
    /\ tool' = t
    /\ data' = d
    /\ resp' = Validate(t, d)
    /\ pc' = IF Failed(resp') THEN "done" ELSE "mkdtemp"
    /\ UNCHANGED <<sessVars, work_dir, cleanup, calls, envVars, fsVars, prev, gmailVars, locVars>>

\* the first call of a session
Receive(t, d) == inv = 0 /\ Invoke(t, d)

RunTool == \E t \in Tools \cup {UnknownTool} :
    \E d \in (IF t \in Tools THEN Inputs(t) ELSE {<< >>}) : Receive(t, d)

\* work_dir = tempfile.mkdtemp(prefix="mcp_work_")
Mkdtemp ==
    /\ pc = "mkdtemp"
    /\ nextDir' = nextDir + 1
    /\ work_dir' = WorkDirName(nextDir')
    /\ dirs' = dirs \cup {work_dir'}
    /\ pc' = "try"
    /\ UNCHANGED <<sessVars, resp, cleanup, calls, envVars, fs, reqVars, gmailVars, locVars>>

\* run_tool's frame before the call and after it has returned
NoLocals ==
    /\ work_dir' = ""
    /\ creds' = None
    /\ service' = None
    /\ token' = 0
    /\ messages' = << >>
    /\ files' = << >>
    /\ todo' = << >>
    /\ uploaded' = << >>
    /\ zip_path' = NoPath
    /\ send_res' = 0
    /\ writes' = << >>

\* A return inside the try block: the value is fixed, then finally runs.
Return(body) == resp' = Ok(body) /\ pc' = "finally"
\* Faulty variant: the handler records the error and lets the tool go on
RaiseAndGoOn(e) == resp' = ExceptHandler(e) /\ pc' = pc

\* Faulty variant: the error response also carries the files saved so far
RaisePartial(e) ==
    /\ resp' = [ExceptHandler(e) EXCEPT !.body.keys = {"downloaded_files"},
                                         !.body.downloaded_files = files]
    /\ pc' = "finally"

\* An exception inside the try block: except wraps it, then finally runs.
Raise(e) == resp' = ExceptHandler(e) /\ pc' = "finally"

\* Faulty variant: the workspace is removed on the success path only
FinallyOnSuccess ==
    /\ pc = "finally"
    /\ IF Failed(resp)
       THEN UNCHANGED <<fs, dirs, cleanup>>
       ELSE /\ fs' = RmTree(fs, work_dir)
            /\ dirs' = dirs \ {work_dir}
            /\ cleanup' = "ok"
    /\ pc' = "done"
    /\ NoLocals
    /\ UNCHANGED <<sessVars, resp, calls, envVars, nextDir, reqVars>>

\* finally: try: shutil.rmtree(work_dir) except Exception: pass
\* (a failing rmtree is modelled as leaving the tree as it was)
Finally ==
    /\ pc = "finally"
    /\ \E ok \in BOOLEAN :
        IF ok
        THEN /\ fs' = RmTree(fs, work_dir)
             /\ dirs' = dirs \ {work_dir}
             /\ cleanup' = "ok"
        ELSE /\ UNCHANGED <<fs, dirs>>
             /\ cleanup' = "failed"
    /\ pc' = "done"
    /\ NoLocals
    /\ UNCHANGED <<sessVars, resp, calls, envVars, nextDir, reqVars>>

\* the try block: the branch of the requested tool, up to its first call
TryDispatch ==
    /\ pc = "try"
    /\ IF tool \in {SearchTool, PipelineTool} /\ ~IntOk(data["max_results"])
       THEN Raise(Err("ValueError", "invalid literal for int()"))
       ELSE /\ pc' = CASE tool \in {SearchTool, SendTool, PipelineTool} -> "build_load"
                       [] tool = UploadTool -> "token"
                       [] tool = CompressTool -> "compress"
            /\ resp' = resp
    /\ UNCHANGED <<sessVars, work_dir, cleanup, calls, envVars, fsVars, reqVars, gmailVars, locVars>>

\* ------------------------------------------------- build_gmail_service
\* `Request` is used by creds.refresh(Request()) but no import binds it.
RequestImported == FALSE

\* if os.path.exists(token_path): creds = Credentials.from_authorized_user_file(...)
BuildLoad ==
    /\ pc = "build_load"
    /\ IF tokenFile.malformed
       THEN Raise(Err("ValueError", "Authorized user info was not in the expected format"))
            /\ creds' = creds
       ELSE /\ creds' = tokenFile
            /\ pc' = "build_check"
            /\ resp' = resp
    /\ UNCHANGED <<sessVars, work_dir, cleanup, calls, envVars, fsVars, reqVars, service, locVars>>

\* creds.refresh(Request()) inside try/except Exception: creds = None
Refreshed(c, ok, n) ==
    IF RequestImported /\ ok THEN Cred(n, FALSE, TRUE) ELSE None

\* if not creds or not creds.valid: ... the refresh attempt
BuildCheck ==
    /\ pc = "build_check"
    /\ IF creds.none \/ ~Valid(creds)
       THEN IF ~creds.none /\ creds.expired /\ creds.refresh_token
            THEN \E ok \in BOOLEAN :
                    /\ creds' = Refreshed(creds, ok, grants + 1)
                    /\ grants' = IF creds'.none THEN grants ELSE grants + 1
                    /\ calls' = IF RequestImported
                                THEN Append(calls, Call("mail_refresh", ~creds'.none))
                                ELSE calls
                    /\ pc' = IF creds'.none THEN "build_flow" ELSE "build_service"
            ELSE /\ pc' = IF creds.none THEN "build_flow" ELSE "build_service"
                 /\ UNCHANGED <<creds, grants, calls>>
       ELSE /\ pc' = "build_service"
            /\ UNCHANGED <<creds, grants, calls>>
    /\ UNCHANGED <<sessVars, work_dir, resp, cleanup, tokenFile, msalFile, fsVars, reqVars, service,
                   locVars>>

\* if not creds: the credentials file is checked and the local OAuth flow
\* starts; run_local_server then blocks until the user has answered
BuildFlow ==
    /\ pc = "build_flow"
    /\ \E credFile \in BOOLEAN :
        IF ~credFile
        THEN Raise(Err("FileNotFoundError", "Google credentials file not found"))
        ELSE pc' = "flow_wait" /\ resp' = resp
    /\ UNCHANGED <<sessVars, work_dir, cleanup, calls, envVars, fsVars, reqVars, gmailVars,
                   locVars>>

\* creds = flow.run_local_server(port=0) returns or raises; the token file
\* is written with the new credentials
RunLocalServer ==
    /\ pc = "flow_wait"
    /\ \E ok \in BOOLEAN :
        /\ calls' = Append(calls, Call("mail_grant", ok))
        /\ IF ok
           THEN /\ grants' = grants + 1
                /\ creds' = Cred(grants', FALSE, TRUE)
                /\ tokenFile' = creds'
                /\ pc' = "build_service"
                /\ resp' = resp
           ELSE /\ Raise(Err("OAuthError", "authorization flow failed"))
                /\ UNCHANGED <<creds, tokenFile, grants>>
    /\ UNCHANGED <<sessVars, work_dir, cleanup, msalFile, fsVars, reqVars, service, locVars>>

\* service = build("gmail", "v1", credentials=creds); return service
BuildService ==
    /\ pc = "build_service"
    /\ service' = creds
    /\ acquired' = [acquired EXCEPT !.mail = creds]
    /\ pc' = IF tool = SendTool THEN "send" ELSE "search"
    /\ UNCHANGED <<parked, work_dir, resp, cleanup, calls, envVars, fsVars, reqVars, creds, locVars>>

\* ------------------------------------- search_messages_with_attachments
NoPart == [filename |-> NoName, attachmentId |-> FALSE]
Part(n, a) == [filename |-> n, attachmentId |-> a]
PartChoices == {NoPart, Part(NameAX, FALSE), Part(NameAX, TRUE), Part(NameA1X, TRUE)}
Message(pl, ps) == [payload |-> pl, parts |-> ps]

\* The messages the provider may answer with, by size: a message with j >= 1
\* parts has size j, a message without payload or parts has size 1.
MessagesOfSize(j) ==
    {Message(TRUE, ps) : ps \in [1..j -> PartChoices]}
        \cup (IF j = 1 THEN {Message(FALSE, << >>)} ELSE {})
\* The mailboxes of total size at most k.
RECURSIVE MailboxesOf(_)
MailboxesOf(k) ==
    {<< >>} \cup
    UNION {{<<msg>> \o rest : msg \in MessagesOfSize(j), rest \in MailboxesOf(k - j)} :
              j \in 1..k}
Mailboxes == MailboxesOf(MaxParts)

\* has_attachment = any(p.get("filename") for p in parts)
HasAttachment(msg) ==
    msg.payload /\ \E i \in 1..Len(msg.parts) : msg.parts[i].filename # NoName
Found(raw) == SelectSeq(raw, HasAttachment)

SearchIn(boxes) ==
    /\ pc = "search"
    /\ \/ /\ \E e \in {Err("RuntimeError", "Gmail API error during search"),
                       Err("TransportError", "connection failed")} : Raise(e)
          /\ calls' = Append(calls, Call("search", FALSE))
          /\ UNCHANGED messages
       \/ \E raw \in boxes :
            /\ calls' = Append(calls, CallN("search", TRUE, Len(Found(raw))))
            /\ messages' = Found(raw)
            /\ pc' = "searched"
            /\ resp' = resp
    /\ UNCHANGED <<sessVars, work_dir, cleanup, envVars, fsVars, reqVars, gmailVars, token, files, todo,
                   uploaded, zip_path, send_res, writes>>

Search == SearchIn(Mailboxes)

RECURSIVE Flatten(_)
Flatten(ms) == IF ms = << >> THEN << >> ELSE Head(ms).parts \o Flatten(Tail(ms))

\* Faulty variant: no short-circuit on an empty search result
NoMessagesGoOn ==
    /\ pc = "searched"
    /\ pc' = "download"
    /\ todo' = Flatten(messages)
    /\ UNCHANGED <<sessVars, work_dir, resp, cleanup, calls, envVars, fsVars, reqVars, gmailVars, token,
                   messages, files, uploaded, zip_path, send_res, writes>>

\* if not messages: return the empty result
NoMessages ==
    /\ pc = "searched"
    /\ IF messages = << >>
       THEN /\ Return(IF tool = SearchTool
                      THEN [NoBody EXCEPT !.keys = {"downloaded_files"}]
                      ELSE [NoBody EXCEPT !.keys = {"status", "downloaded_files"},
                                          !.status = "no_messages_found"])
            /\ todo' = todo
       ELSE /\ pc' = "download"
            /\ todo' = Flatten(messages)
            /\ resp' = resp
    /\ UNCHANGED <<sessVars, work_dir, cleanup, calls, envVars, fsVars, reqVars, gmailVars, token,
                   messages, files, uploaded, zip_path, send_res, writes>>

\* ----------------------------------- download_attachments_from_messages
\* Faulty variant: "if" in place of "while": one suffix is tried, not checked again
UniquePathOnce(f, save_path, base, ext, i) ==
    IF Exists(f, save_path)
    THEN Path(base.dir, base.name \o <<"_">> \o Dec(i) \o ext)
    ELSE save_path

\* while os.path.exists(save_path): save_path = f"{base}_{i}{ext}"; i += 1
RECURSIVE UniquePath(_, _, _, _, _)
UniquePath(f, save_path, base, ext, i) ==
    IF Exists(f, save_path)
    THEN UniquePath(f, Path(base.dir, base.name \o <<"_">> \o Dec(i) \o ext), base, ext, i + 1)
    ELSE save_path

\* save_path = os.path.join(download_folder, filename), made unique
SavePath(f, download_folder, filename) ==
    LET save_path == JoinName(download_folder, filename)
        be == SplitExt(save_path)
    IN  UniquePath(f, save_path, be[1], be[2], 1)

\* one iteration of "for part in parts"
DownloadPart ==
    /\ pc = "download"
    /\ todo # << >>
    /\ todo' = Tail(todo)
    /\ LET part == Head(todo) IN
        IF part.filename # NoName /\ part.attachmentId
        THEN \/ /\ \E e \in {Err("HttpError", "HttpError 404 when requesting the attachment"),
                                 Err("TransportError", "connection failed")} : Raise(e)
                /\ calls' = Append(calls, Call("fetch", FALSE))
                /\ UNCHANGED <<fs, files, writes>>
             \/ LET save_path == SavePath(fs, work_dir, part.filename) IN
                    /\ calls' = Append(calls, Call("fetch", TRUE))
                    /\ IF save_path.dir \in dirs
                       THEN /\ writes' = Append(writes, Exists(fs, save_path))
                            /\ fs' = WriteFile(fs, save_path, FileContent)
                            /\ files' = Append(files, save_path)
                            /\ pc' = pc
                            /\ resp' = resp
                       ELSE /\ Raise(ErrPath("FileNotFoundError", "No such file or directory",
                                             save_path))
                            /\ UNCHANGED <<fs, files, writes>>
        ELSE UNCHANGED <<pc, resp, calls, fs, files, writes>>
    /\ UNCHANGED <<sessVars, work_dir, cleanup, envVars, dirs, nextDir, reqVars, gmailVars, token,
                   messages, uploaded, zip_path, send_res>>

\* return saved_files (messages is not read again after the download)
Downloaded ==
    /\ pc = "download"
    /\ todo = << >>
    /\ IF tool = SearchTool
       THEN Return([NoBody EXCEPT !.keys = {"downloaded_files"}, !.downloaded_files = files])
       ELSE pc' = "token" /\ resp' = resp
    /\ messages' = << >>
    /\ UNCHANGED <<sessVars, work_dir, cleanup, calls, envVars, fsVars, reqVars, gmailVars, token, files,
                   todo, uploaded, zip_path, send_res, writes>>

\* ---------------------------------------------- get_onedrive_access_token
\* app.get_accounts() of an application object built without a token cache
MsalAccounts == << >>

\* The whole function: no silent result, so a grant flow runs; the result
\* is returned and nothing is written to settings.MSAL_TOKEN_FILE.
StorageToken ==
    /\ pc = "token"
    /\ \E clientSecret \in BOOLEAN, flowOk \in BOOLEAN, ok \in BOOLEAN :
        IF MsalAccounts # << >>
        THEN /\ token' = msalFile
             /\ pc' = "upload"
             /\ UNCHANGED <<resp, calls, grants>>
             /\ acquired' = [acquired EXCEPT !.storage = token']
        ELSE /\ calls' = Append(calls, Call("storage_grant", (clientSecret \/ flowOk) /\ ok))
             /\ IF ~clientSecret /\ ~flowOk
                THEN /\ Raise(Err("RuntimeError", "Failed to create device flow"))
                     /\ UNCHANGED <<token, grants, acquired>>
                ELSE IF ~ok
                     THEN /\ Raise(Err("RuntimeError", "Could not obtain access token"))
                          /\ UNCHANGED <<token, grants, acquired>>
                     ELSE /\ grants' = grants + 1
                          /\ token' = grants'
                          /\ acquired' = [acquired EXCEPT !.storage = token']
                          /\ pc' = "upload"
                          /\ resp' = resp
    /\ todo' = IF tool = UploadTool THEN data["local_paths"] ELSE files
    /\ UNCHANGED <<parked, work_dir, cleanup, tokenFile, msalFile, fsVars, reqVars, gmailVars,
                   messages, files, uploaded, zip_path, send_res, writes>>

\* --------------------------------------------------------- upload loop
\* os.path.join(remote_folder, os.path.basename(lp))
RemotePath(remote_folder, lp) == Path(remote_folder, BaseName(lp))

\* one iteration of "for lp in local_paths" / "for fpath in files"
UploadOne ==
    /\ pc = "upload"
    /\ todo # << >>
    /\ todo' = Tail(todo)
    /\ LET lp == IF tool = UploadTool THEN AbsPath(Head(todo)) ELSE Head(todo)
           remote_folder == IF tool = UploadTool THEN data["remote_folder_path"]
                            ELSE data["onedrive_folder"]
       IN
        IF tool = UploadTool /\ ~Exists(fs, lp)
        THEN /\ Raise(ErrPath("HTTPException", "Local file not found", lp))
             /\ UNCHANGED <<calls, uploaded>>
        ELSE IF token = 0
        THEN /\ Raise(Err("RuntimeError", "Missing access token"))
             /\ UNCHANGED <<calls, uploaded>>
        ELSE IF ~Exists(fs, lp)
        THEN /\ Raise(ErrPath("FileNotFoundError", "No such file or directory", lp))
             /\ UNCHANGED <<calls, uploaded>>
        ELSE \/ /\ Raise(Err("RuntimeError", "OneDrive upload failed"))
                /\ calls' = Append(calls, Call("upload", FALSE))
                /\ UNCHANGED uploaded
             \/ /\ calls' = Append(calls, Call("upload", TRUE))
                /\ uploaded' = Append(uploaded, RemotePath(remote_folder, lp))
                /\ UNCHANGED <<pc, resp>>
    /\ UNCHANGED <<sessVars, work_dir, cleanup, envVars, fsVars, reqVars, gmailVars, token, messages,
                   files, zip_path, send_res, writes>>

UploadDone ==
    /\ pc = "upload"
    /\ todo = << >>
    /\ IF tool = UploadTool
       THEN Return([NoBody EXCEPT !.keys = {"uploaded"}, !.uploaded = uploaded])
       ELSE pc' = "compress" /\ resp' = resp
    /\ UNCHANGED <<sessVars, work_dir, cleanup, calls, envVars, fsVars, reqVars, gmailVars, locVars>>

\* ------------------------------------------------------- compress_files
\* the archive path run_tool passes to compress_files
OutputZip(t, d, wd) ==
    IF t = CompressTool
    THEN IF IsAbs(d["output_zip"]) THEN d["output_zip"] ELSE Join(wd, d["output_zip"])
    ELSE Join(wd, Path("", IF EndsWith(d["zip_name"], DotZip)
                           THEN d["zip_name"]
                           ELSE d["zip_name"] \o DotZip))

\* with zipfile.ZipFile(output_zip, "w") as zf: the file is created or truncated
ZipOpen ==
    /\ pc = "compress"
    /\ zip_path' = OutputZip(tool, data, work_dir)
    /\ fs' = WriteFile(fs, zip_path', ZipContent(<< >>))
    /\ calls' = Append(calls, Call("archive", TRUE))
    /\ todo' = IF tool = CompressTool THEN data["local_paths"] ELSE files
    /\ pc' = "zip_write"
    /\ UNCHANGED <<sessVars, work_dir, resp, cleanup, envVars, dirs, nextDir, reqVars, gmailVars, token,
                   messages, files, uploaded, send_res, writes>>

\* one iteration of "for f in file_paths"
ZipWrite ==
    /\ pc = "zip_write"
    /\ todo # << >>
    /\ todo' = Tail(todo)
    /\ LET f == Head(todo) IN
        IF ~Exists(fs, f)
        THEN /\ Raise(ErrPath("FileNotFoundError", "File does not exist", f))
             /\ fs' = fs
        ELSE /\ fs' = [fs EXCEPT ![zip_path].entries = Append(@, BaseName(f))]
             /\ UNCHANGED <<pc, resp>>
    /\ UNCHANGED <<sessVars, work_dir, cleanup, calls, envVars, dirs, nextDir, reqVars, gmailVars, token,
                   messages, files, uploaded, zip_path, send_res, writes>>

ZipClose ==
    /\ pc = "zip_write"
    /\ todo = << >>
    /\ IF tool = CompressTool
       THEN Return([NoBody EXCEPT !.keys = {"zip_path"}, !.zip_path = zip_path])
       ELSE pc' = "send" /\ resp' = resp
    /\ UNCHANGED <<sessVars, work_dir, cleanup, calls, envVars, fsVars, reqVars, gmailVars, locVars>>

\* ------------------------------------------ send_message_with_attachment
Send ==
    /\ pc = "send"
    /\ LET file_path == IF tool = SendTool THEN data["zip_path"] ELSE zip_path IN
        IF ~Exists(fs, file_path)
        THEN /\ Raise(ErrPath("FileNotFoundError", "Attachment not found", file_path))
             /\ UNCHANGED <<calls, send_res>>
        ELSE \/ /\ Raise(Err("RuntimeError", "Failed to send message"))
                /\ calls' = Append(calls, Call("send", FALSE))
                /\ UNCHANGED send_res
             \/ /\ calls' = Append(calls, Call("send", TRUE))
                /\ send_res' = 1
                /\ Return(IF tool = SendTool
                          THEN [NoBody EXCEPT !.keys = {"result"}, !.result = 1]
                          ELSE [NoBody EXCEPT
                                  !.keys = {"downloaded_files", "uploaded", "zip_path",
                                            "send_result"},
                                  !.downloaded_files = files, !.uploaded = uploaded,
                                  !.zip_path = zip_path, !.result = 1])
    /\ UNCHANGED <<sessVars, work_dir, cleanup, envVars, fsVars, reqVars, gmailVars, token, messages,
                   files, todo, uploaded, zip_path, writes>>

\* ------------------------------------------------------------------ spec
Next ==
    \/ RunTool \/ Mkdtemp \/ TryDispatch
    \/ BuildLoad \/ BuildCheck \/ BuildFlow \/ RunLocalServer \/ BuildService
    \/ Search \/ NoMessages \/ DownloadPart \/ Downloaded
    \/ StorageToken \/ UploadOne \/ UploadDone
    \/ ZipOpen \/ ZipWrite \/ ZipClose \/ Send
    \/ Finally
Spec == Init /\ [][Next]_vars

\* ------------------------------------------- two invocations in a row
\* A client that searches and downloads, then passes the paths it was given
\* to compress_files with a relative output name.
RunSearch == \E d \in Inputs(SearchTool) : Receive(SearchTool, d)

FeedCompress ==
    /\ pc = "done"
    /\ inv = 1
    /\ tool = SearchTool
    /\ resp.status = 200
    /\ inv' = inv + 1
    /\ prev' = resp
    /\ tool' = CompressTool
    /\ data' = [k \in {"local_paths", "output_zip"} |->
                  IF k = "local_paths" THEN resp.body.downloaded_files
                  ELSE Path("", NameOutZip)]
    /\ resp' = Validate(tool', data')
    /\ pc' = "mkdtemp"
    /\ cleanup' = "none"
    /\ calls' = << >>
    /\ NoLocals
    /\ UNCHANGED <<sessVars, envVars, fsVars>>

NextChain ==
    \/ RunSearch \/ Mkdtemp \/ TryDispatch
    \/ BuildLoad \/ BuildCheck \/ BuildFlow \/ RunLocalServer \/ BuildService
    \/ Search \/ NoMessages \/ DownloadPart \/ Downloaded
    \/ FeedCompress \/ ZipOpen \/ ZipWrite \/ ZipClose
    \/ Finally
SpecChain == Init /\ [][NextChain]_vars

\* --------------------------------------- the same request, twice in a row
\* A client that calls a tool which acquires a token (upload_to_onedrive:
\* storage, send_zip_via_email: mail) and, when it has answered, calls it
\* again with the same input.
RunAcquire == \E t \in {UploadTool, SendTool} : \E d \in FullInputs(t) : Receive(t, d)

Again ==
    /\ pc = "done"
    /\ inv = 1
    /\ inv' = inv + 1
    /\ resp' = Validate(tool, data)
    /\ pc' = IF Failed(resp') THEN "done" ELSE "mkdtemp"
    /\ cleanup' = "none"
    /\ calls' = << >>
    /\ NoLocals
    /\ UNCHANGED <<tool, data, prev, envVars, fsVars, sessVars>>

NextTwice ==
    \/ RunAcquire \/ Again \/ Mkdtemp \/ TryDispatch
    \/ BuildLoad \/ BuildCheck \/ BuildFlow \/ RunLocalServer \/ BuildService
    \/ StorageToken \/ UploadOne \/ UploadDone \/ Send
    \/ Finally
SpecTwice == Init /\ [][NextTwice]_vars

\* ------------------------------------- file names the sender has chosen
\* The pipeline on a mailbox of one message whose parts are named by the
\* sender: a plain name, an absolute path, a name below a directory, and
\* the name the archive gets.
PathParts ==
    {Part(NameAX, TRUE), Part(NameAbsAX, TRUE), Part(NameSubAX, TRUE), Part(NameOutZip, TRUE)}
PathMailboxes == {<<Message(TRUE, ps)>> : ps \in UNION {[1..j -> PathParts] : j \in 1..MaxParts}}

RunPipeline ==
    \E d \in {x \in FullInputs(PipelineTool) : IntOk(x["max_results"])} :
        Receive(PipelineTool, d)
SearchNames == SearchIn(PathMailboxes)

NextNames ==
    \/ RunPipeline \/ Mkdtemp \/ TryDispatch
    \/ BuildLoad \/ BuildCheck \/ BuildFlow \/ RunLocalServer \/ BuildService
    \/ SearchNames \/ NoMessages \/ DownloadPart \/ Downloaded
    \/ StorageToken \/ UploadOne \/ UploadDone
    \/ ZipOpen \/ ZipWrite \/ ZipClose \/ Send
    \/ Finally
SpecNames == Init /\ [][NextNames]_vars

\* ------------------------------------------- two invocations at a time
\* run_tool is a synchronous endpoint: the server runs concurrent requests
\* on threads of one process, which share the file system and the token
\* files.  Two invocations are modelled: one is running, the other's frame
\* is parked, and a thread switch exchanges them between any two steps.
ConcInputs(t) ==
    IF t = CompressTool
    THEN {d \in FullInputs(t) :
            /\ d["local_paths"] = <<Path(DataDir, NameD)>>
            /\ d["output_zip"] \in {Path(DataDir, NameOut), Path("", NameOutZip)}}
    ELSE {d \in FullInputs(t) : d["zip_path"] = Path(DataDir, NameOutZip)}

RunConcurrent == \E t \in {CompressTool, SendTool} : \E d \in ConcInputs(t) : Invoke(t, d)

Switch ==
    /\ parked.pc # "done"
    /\ parked # Frame
    /\ parked' = Frame
    /\ pc' = parked.pc
    /\ tool' = parked.tool
    /\ data' = parked.data
    /\ work_dir' = parked.work_dir
    /\ resp' = parked.resp
    /\ cleanup' = parked.cleanup
    /\ calls' = parked.calls
    /\ creds' = parked.creds
    /\ service' = parked.service
    /\ token' = parked.token
    /\ messages' = parked.messages
    /\ files' = parked.files
    /\ todo' = parked.todo
    /\ uploaded' = parked.uploaded
    /\ zip_path' = parked.zip_path
    /\ send_res' = parked.send_res
    /\ writes' = parked.writes
    /\ UNCHANGED <<envVars, fsVars, prev, inv, acquired>>

NextConc ==
    \/ RunConcurrent \/ Switch \/ Mkdtemp \/ TryDispatch
    \/ BuildLoad \/ BuildCheck \/ BuildFlow \/ RunLocalServer \/ BuildService
    \/ ZipOpen \/ ZipWrite \/ ZipClose \/ Send
    \/ Finally
SpecConc == Init /\ [][NextConc]_vars

\* ---------------------------------------------------------------- claims
Validated == pc # "idle" /\ Validate(tool, data) = NoResp
Ended == pc \in {"finally", "done"}

\* C1: every invocation that passes validation ends with its workspace
\* removed by the cleanup, on the success, no-messages and failure paths
\* alike (the cleanup ran; unless rmtree itself failed, the directory and
\* every file below it are gone), and the cleanup step never changes the
\* response fixed before it.
C1_CleanedAtEnd ==
    /\ (pc = "done" /\ Validated) => cleanup \in {"ok", "failed"}
    /\ (pc \notin {"idle", "mkdtemp", "done"}) => (work_dir # "" /\ cleanup = "none")
C1_CleanupStep ==
    pc = "finally" =>
        /\ pc' = "done"
        /\ resp' = resp
        /\ cleanup' \in {"ok", "failed"}
        /\ cleanup' = "ok" =>
            /\ work_dir \notin dirs'
            /\ \A q \in DOMAIN fs' : q.dir # work_dir
C1_WorkspaceAlwaysCleaned == []C1_CleanedAtEnd /\ [][C1_CleanupStep]_vars
C1_Witness ==
    /\ pc = "done" /\ cleanup = "ok" /\ Failed(resp)
    /\ tool = PipelineTool /\ Call("fetch", TRUE) \in Range(calls)
    /\ dirs = {DataDir, CwdDir} /\ fs = InitFs

\* C2: a request that lacks a required field is answered with "Missing
\* required input" naming the first absent field in the schema's order, and
\* at that point no workspace exists and no external call has been made.
C2_MissingInputFirst ==
    (pc # "idle" /\ tool \in Tools) =>
        \A i \in 1..Len(Required(tool)) :
            (/\ Required(tool)[i] \notin DOMAIN data
             /\ \A j \in 1..(i - 1) : Required(tool)[j] \in DOMAIN data) =>
                /\ resp = Http(400, ErrArg("HTTPException", "Missing required input",
                                           Required(tool)[i]))
                /\ pc = "done"
                /\ work_dir = "" /\ nextDir = 0 /\ dirs = {DataDir, CwdDir} /\ fs = InitFs
                /\ calls = << >> /\ creds = None /\ token = 0
C2_Witness ==
    /\ pc = "done" /\ tool = PipelineTool
    /\ "query" \in DOMAIN data /\ "max_results" \notin DOMAIN data
    /\ "zip_name" \notin DOMAIN data
    /\ resp.error.arg = "max_results"

\* C3: when the search succeeds with no attachment-bearing message, both
\* tools return a success response with an empty file list (the pipeline
\* with status no_messages_found), having made no fetch, storage grant,
\* upload, archive or send call.
C3_NoMessagesShortCircuit ==
    (/\ Ended
     /\ tool \in {SearchTool, PipelineTool}
     /\ CallN("search", TRUE, 0) \in Range(calls)) =>
        /\ resp.status = 200
        /\ resp.body.downloaded_files = << >>
        /\ "downloaded_files" \in resp.body.keys
        /\ tool = PipelineTool => resp.body.status = "no_messages_found"
        /\ Ops(calls) \cap {"fetch", "storage_grant", "upload", "archive", "send"} = {}
C3_Witness ==
    /\ pc = "done" /\ tool = PipelineTool
    /\ CallN("search", TRUE, 0) \in Range(calls)
    /\ resp.body.status = "no_messages_found"

\* C4: in the full pipeline the external calls are made in stage order
\* (search, download, upload, archive, send), a failed call is the last call
\* of the invocation, and once the invocation has failed no further call is
\* made and it stays failed.
StageOf(op) ==
    CASE op \in {"mail_refresh", "mail_grant"} -> 0
      [] op = "search" -> 1
      [] op = "fetch" -> 2
      [] op \in {"storage_grant", "upload"} -> 3
      [] op = "archive" -> 4
      [] op = "send" -> 5
C4_InOrder ==
    tool = PipelineTool =>
        /\ \A i, j \in 1..Len(calls) : i < j => StageOf(calls[i].op) <= StageOf(calls[j].op)
        /\ \A i \in 1..(Len(calls) - 1) : calls[i].ok
        /\ "send_result" \in resp.body.keys =>
             {"search", "storage_grant", "archive", "send"} \subseteq Ops(calls)
C4_StagesInOrderFailureAbsorbing ==
    /\ []C4_InOrder
    /\ [][(tool = PipelineTool /\ Failed(resp)) => (calls' = calls /\ resp' = resp)]_vars
C4_Witness ==
    /\ pc = "done" /\ tool = PipelineTool /\ Failed(resp)
    /\ Call("upload", TRUE) \in Range(calls) /\ Call("upload", FALSE) \in Range(calls)

\* C5 (as claimed): upload_to_onedrive given a local path that does not
\* exist fails as "Local file not found" with no network call before it.
C5_MissingPathFailsBeforeNetwork ==
    (/\ pc = "done" /\ tool = UploadTool /\ Validated
     /\ \E i \in 1..Len(data["local_paths"]) : ~Exists(InitFs, data["local_paths"][i])) =>
        /\ resp.error.inner = "Local file not found"
        /\ calls = << >>

\* C6 (as claimed): when compress_files fails on a missing input, no archive
\* is at the output path: none was created and an archive that was there
\* before is as it was.
C6_SourceMissingLeavesNoArchive ==
    (pc = "finally" /\ resp.error.inner = "File does not exist") =>
        \/ ~Exists(fs, zip_path)
        \/ Exists(InitFs, zip_path) /\ fs[zip_path] = InitFs[zip_path]

\* C7: the paths one download call returns are pairwise distinct, and no
\* attachment is written to a path that existed when it was written,
\* whatever names repeat or already carry a numeric suffix.
C7_DistinctPathsNoOverwrite ==
    /\ \A i, j \in 1..Len(files) : i # j => files[i] # files[j]
    /\ \A i \in 1..Len(writes) : ~writes[i]
    /\ Len(writes) = Len(files)
C7_Witness ==
    /\ Len(files) = 3
    /\ files[3].name = <<"a", "_", "2", ".", "x">>
    /\ files[2].name = NameA1X

\* C8 (as claimed): the paths a successful search_and_download_attachments
\* returned, given to a later compress_files with a relative output name,
\* make it succeed with one archive entry per path, named by its base name.
C8_ReturnedPathsCompress ==
    (inv = 2 /\ pc = "finally") =>
        /\ resp.status = 200
        /\ Exists(fs, zip_path)
        /\ fs[zip_path].entries =
             [i \in 1..Len(prev.body.downloaded_files) |->
                BaseName(prev.body.downloaded_files[i])]

\* C9 (as claimed): the Gmail session is never built on credentials that
\* are expired or carry no access token.
C9_SessionTokenValid == ~service.none => Valid(service)

\* C10 (as claimed): for both providers the token an acquisition returned
\* is the one in that provider's token file.
C10_AcquiredTokenPersisted ==
    /\ (Call("mail_grant", TRUE) \in Range(calls) /\ ~service.none) => tokenFile = service
    /\ token # 0 => msalFile = token

\* C11 (as claimed): when a second call of a tool follows a first one whose
\* acquire returned a token that is still valid, the second call's acquire
\* makes no network call: no refresh request and no grant flow, for the
\* storage provider and for the mail provider.
C11_SecondAcquireStep ==
    /\ (inv = 2 /\ pc = "token" /\ acquired.storage # 0) => calls' = calls
    /\ (/\ inv = 2 /\ Valid(acquired.mail)
        /\ pc \in {"build_load", "build_check", "build_flow", "flow_wait"}) => calls' = calls
C11_SecondAcquireNoNetwork == [][C11_SecondAcquireStep]_vars

\* C12: a failure after validation is answered by one error response, an
\* HTTP 500 whose body holds no stage output (no file list, upload list,
\* archive path or send result) and whose message quotes no path the
\* invocation produced; once the invocation has failed its response does
\* not change.
C12_NoOutputs ==
    (Validated /\ Failed(resp)) =>
        /\ resp.status = 500
        /\ resp.body = NoBody
        /\ (pc = "finally" /\ resp.error.path # NoPath) =>
              resp.error.path \notin Range(files) \cup {zip_path}
C12_ErrorCarriesNoOutputs ==
    /\ []C12_NoOutputs
    /\ [][Failed(resp) => resp' = resp]_vars
C12_Witness ==
    /\ pc = "done" /\ tool = PipelineTool /\ Failed(resp)
    /\ Call("fetch", TRUE) \in Range(calls) /\ Call("upload", TRUE) \in Range(calls)
    /\ Call("archive", TRUE) \in Range(calls) /\ Call("send", FALSE) \in Range(calls)
    /\ resp.body = NoBody

\* C13 (as claimed): the response to a failed search, download, upload or
\* send call names the stage that failed, in the wrapper or in the
\* diagnostic text it quotes.
StageLabel(op) ==
    CASE op = "search" -> "search"
      [] op = "fetch" -> "download"
      [] op = "upload" -> "upload"
      [] op = "send" -> "send"
StageNamedBy(text) ==
    CASE text = "Gmail API error during search" -> "search"
      [] text = "OneDrive upload failed" -> "upload"
      [] text = "Failed to send message" -> "send"
      [] OTHER -> ""
C13_ErrorNamesStage ==
    (/\ pc = "finally" /\ Failed(resp) /\ calls # << >>
     /\ ~calls[Len(calls)].ok
     /\ calls[Len(calls)].op \in {"search", "fetch", "upload", "send"}) =>
        /\ resp.error.inner # ""
        /\ StageLabel(calls[Len(calls)].op)
              \in {StageNamedBy(resp.error.msg), StageNamedBy(resp.error.inner)}

\* C14 (as claimed): two live invocations never have the same workspace,
\* and no step of the running invocation creates, changes or removes a
\* file that is in the other invocation's workspace or that the other
\* invocation has written (its downloads, its archive).
C14_DistinctWorkspaces ==
    (work_dir # "" /\ parked.work_dir # "") => work_dir # parked.work_dir
C14_NoInterference ==
    \A q \in DOMAIN fs \cup DOMAIN fs' :
        (\/ (parked.work_dir # "" /\ q.dir = parked.work_dir)
         \/ q \in {AbsPath(parked.files[i]) : i \in 1..Len(parked.files)}
         \/ (parked.zip_path # NoPath /\ q = AbsPath(parked.zip_path))) =>
            /\ q \in DOMAIN fs <=> q \in DOMAIN fs'
            /\ q \in DOMAIN fs => fs'[q] = fs[q]
C14_WorkspacesIsolated == []C14_DistinctWorkspaces /\ [][C14_NoInterference]_vars

\* C15 (as claimed): two invocations are never inside the mail provider's
\* grant flow at the same time.
C15_GrantFlowsSerialized == ~(pc = "flow_wait" /\ parked.pc = "flow_wait")

\* C16 (as claimed): with an expired mail token that has a refresh
\* credential, the grant flow is entered only after a refresh request that
\* the provider refused.
C16_RefreshBeforeGrant ==
    (pc = "build_flow" /\ ~tokenFile.none /\ tokenFile.expired /\ tokenFile.refresh_token) =>
        Call("mail_refresh", FALSE) \in Range(calls)

\* C17 (as claimed): every file the invocation has saved, and the archive
\* of the pipeline, is in the invocation's workspace, whatever the names of
\* the attachments are.
C17_CreatedFilesInWorkspace ==
    work_dir # "" =>
        /\ \A i \in 1..Len(files) : files[i].dir = work_dir
        /\ (tool = PipelineTool /\ zip_path # NoPath) => zip_path.dir = work_dir

\* C18 (as claimed): when the pipeline reaches the send stage the archive
\* it sends has at least one entry.
C18_SentArchiveNotEmpty ==
    (tool = PipelineTool /\ pc = "send") =>
        /\ Exists(fs, zip_path)
        /\ fs[zip_path].entries # << >>

\* C19 (as claimed): in the pipeline the archive path is none of the paths
\* the download stage saved a file at.
C19_ArchiveIsNoDownload ==
    (tool = PipelineTool /\ zip_path # NoPath) =>
        \A i \in 1..Len(files) : files[i] # zip_path

\* C20 (as claimed): in the pipeline the saved files have pairwise distinct
\* base names, hence distinct remote paths and distinct archive entries.
C20_BaseNamesInjective ==
    tool = PipelineTool =>
        /\ \A i, j \in 1..Len(files) : i # j => BaseName(files[i]) # BaseName(files[j])
        /\ \A i, j \in 1..Len(uploaded) : i # j => uploaded[i] # uploaded[j]
        /\ zip_path # NoPath =>
              \A i, j \in 1..Len(fs[zip_path].entries) :
                  i # j => fs[zip_path].entries[i] # fs[zip_path].entries[j]

====
